---- MODULE Spec2Model ----
(***************************************************************************)
(* MoodTune RAG: the retrieval-augmentation pipeline                       *)
(* (RAGPipeline.search_tracks), the merge/dedup step and the Document      *)
(* Store adapter (OpenSearchRepo), as a state machine.                     *)
(*                                                                         *)
(* Conventions.  A Python str is a sequence of ASCII codes ("a" is <<97>>, *)
(* " A" is <<32, 65>>); None and "" are both the empty sequence, which is  *)
(* how every `x or ""` / `if not x` of the source treats them.  A float in *)
(* [0, 1] is an integer number of hundredths (0.6 is 60, the relaxation    *)
(* step 0.1 is 10).  An id is a str as well; None is NoId.                  *)
(***************************************************************************)
EXTENDS Integers, Sequences, FiniteSets, TLC

VARIABLES
    store,          \* Document Store: _id -> document body
    indexExists,    \* the collection (index) exists
    ixState,        \* index_tracks: "idle" | "writing" | "done"
    ixQueue,        \* index_tracks: documents of `docs` not yet written
    ixIndexed,      \* index_tracks: `indexed`
    ixLast,         \* index_tracks: the last client.index call of this run
    ixDocs,         \* index_tracks: `docs`
    ixCalls,        \* index_tracks: the store calls of this run, in order
    ixReturned,     \* index_tracks: the value returned
    pc,             \* search_tracks: "idle" | "retrieve" | "augment" | "resolve" | "done"
    emotion,        \* search_tracks: argument
    min_tracks,     \* search_tracks: argument
    max_relax_steps,\* search_tracks: argument
    attempt,        \* search_tracks: iterations of the retrieval loop so far
    valence,        \* search_tracks: current valence range
    energy,         \* search_tracks: current energy range
    tracks,         \* search_tracks: result of the last store query
    existing_keys,  \* search_tracks: (title, artist) keys already present
    pairs,          \* search_tracks: new pairs awaiting resolution
    iter_idx,       \* search_tracks: augmentation rounds so far
    found,          \* search_tracks: generated candidates
    resolved,       \* search_tracks: `resolved`, what resolve_batch returned
    kb_hits,        \* search_tracks: keys of the suggestions found in the store
    result,         \* search_tracks: the returned list
    path,           \* search_tracks: how it ended ("early", "merged", "found",
                    \*   "fallback", "raised"), "none" before
    failed,         \* collaborator calls that failed in this invocation
    queries,        \* calls of search_tracks_by_emotion in this invocation
    curator_calls,  \* calls of curate_songs in this invocation
    curator_count,  \* the `count` of the last call of curate_songs (0 before)
    mState,         \* merge step alone: "off" | "in" | "pipeline" | "route"
    mTracks,        \* merge step alone: the retrieved list
    mGenerated,     \* merge step alone: the generated list
    mMerged,        \* merge step alone: the merged list
    fn,             \* a function alone: which one ("none" when none is)
    fnArgs,         \* a function alone: its arguments
    fnOut,          \* a function alone: what it returned, call after call
    rpc,            \* /search: "idle" | "pipeline" | "index" | "done"
    rEmotion,       \* /search: `emotion`
    rMinTracks,     \* /search: `min_tracks`
    rTracks,        \* /search: `tracks`, what the pipeline returned
    rRetrieved,     \* /search: entries the pipeline's last store query returned
    rCurated,       \* /search: calls of curate_songs, the pipeline's and the route's
    rAugmented,     \* /search: `augmented`
    rMerged,        \* /search: `merged`
    rOut,           \* /search: the response (status and body), << >> before
    rToIndex,       \* /search: `to_index` as handed to index_tracks
    rEmbed,         \* /search: "none" | "raised" (LLMClient() raised) | "answered"
    rVecs,          \* /search: `vecs`, what embed_texts returned
    rLost,          \* /search: positions of to_index whose write failed
    rIndexed,       \* /search: `indexed`
    searches,       \* /search requests so far
    seeds,          \* seed runs so far
    cBatch,         \* two overlapping index_tracks calls: the `docs` of each
    cDone,          \* two overlapping index_tracks calls: writes each has attempted
    cLost           \* two overlapping index_tracks calls: the writes that failed

storeVars == <<store, indexExists>>
ixVars == <<ixState, ixQueue, ixIndexed, ixLast, ixDocs, ixCalls, ixReturned>>
argVars == <<emotion, min_tracks, max_relax_steps>>
retrVars == <<attempt, valence, energy, tracks>>
augVars == <<existing_keys, pairs, iter_idx, found, resolved, kb_hits>>
ragVars == <<pc, argVars, retrVars, augVars, result, path, failed, queries, curator_calls,
             curator_count>>
mergeVars == <<mState, mTracks, mGenerated, mMerged>>
fnVars == <<fn, fnArgs, fnOut>>
embVars == <<rToIndex, rEmbed, rVecs, rLost, rIndexed>>
routeVars == <<rpc, rEmotion, rMinTracks, rTracks, rRetrieved, rCurated, rAugmented, rMerged,
               rOut, embVars, searches, seeds>>
concVars == <<cBatch, cDone, cLost>>
sideVars == <<mergeVars, fnVars, concVars, routeVars, concVars>>
vars == <<storeVars, ixVars, ragVars, sideVars>>

(***************************************************************************)
(* Bounds of the model.                                                    *)
(***************************************************************************)
MaxBatch == 2       \* documents in one index_tracks call
MaxAuto == 1        \* documents stored under a store-generated _id
MaxMinTracks == 2   \* small values of min_tracks (the retrieval can satisfy them)
MaxRelaxSteps == 2  \* values of max_relax_steps

(***************************************************************************)
(* Strings.                                                                *)
(***************************************************************************)
\* str.lower() on ASCII
Lower(s) == [i \in 1..Len(s) |-> IF s[i] >= 65 /\ s[i] <= 90 THEN s[i] + 32 ELSE s[i]]

\* str.strip(): drop leading and trailing whitespace
IsSpace(c) == c \in {9, 10, 13, 32}
RECURSIVE LStrip(_)
LStrip(s) == IF s # << >> /\ IsSpace(Head(s)) THEN LStrip(Tail(s)) ELSE s
RECURSIVE RStrip(_)
RStrip(s) == IF s # << >> /\ IsSpace(s[Len(s)]) THEN RStrip(SubSeq(s, 1, Len(s) - 1)) ELSE s
Strip(s) == RStrip(LStrip(s))

\* the labels of the model
happy == <<104, 97, 112, 112, 121>>
sad == <<115, 97, 100>>
angry == <<97, 110, 103, 114, 121>>
relaxed == <<114, 101, 108, 97, 120, 101, 100>>
Sad == <<83, 97, 100>>

\* `None` (and ""), where an id is expected
NoId == << >>

\* str(n) for n >= 0
RECURSIVE Num(_)
Num(n) == IF n < 10 THEN <<48 + n>> ELSE Num(n \div 10) \o <<48 + (n % 10)>>

\* a <= b on str (Python's order: by code, a proper prefix first)
RECURSIVE StrLeq(_, _)
StrLeq(a, b) ==
    IF a = << >> THEN TRUE
    ELSE IF b = << >> THEN FALSE
    ELSE IF Head(a) # Head(b) THEN Head(a) < Head(b)
    ELSE StrLeq(Tail(a), Tail(b))

(***************************************************************************)
(* Document Store (OpenSearch) as the adapter uses it.                     *)
(***************************************************************************)
EmptyStore == [i \in {} |-> 0]

\* a store-generated _id: fresh, never one a caller gives
AutoId(k) == <<64>> \o Num(k)
AutoIds == {AutoId(k) : k \in 1..MaxAuto}
FreshIds(st) ==
    LET free == {k \in 1..MaxAuto : AutoId(k) \notin DOMAIN st}
    IN IF free = {} THEN {} ELSE {AutoId(CHOOSE k \in free : \A j \in free : k <= j)}

\* client.index(index, id=_id, body=d): insert or overwrite the document
\* stored under _id; without an id the store generates a fresh one.
OsIndex(st, _id, body) ==
    [i \in DOMAIN st \cup {_id} |-> IF i = _id THEN body ELSE st[i]]

Doc(id, title, artist, mood, val, eng, provider) ==
    [id |-> id, title |-> title, artist |-> artist, mood |-> mood,
     valence |-> val, energy |-> eng, provider |-> provider]

\* the documents callers hand to index_tracks in this model
DocPool ==
    { Doc(Num(1), <<97>>, <<120>>, happy, 80, 80, <<115>>),
      Doc(Num(1), <<98>>, <<120>>, happy, 55, 80, <<115>>),
      Doc(Num(2), <<65>>, <<120>>, happy, 80, 80, <<115>>),
      Doc(NoId, <<98>>, <<120>>, happy, 80, 80, <<115>>) }

RECURSIVE SeqsUpTo(_, _)
SeqsUpTo(S, n) ==
    IF n = 0 THEN {<< >>}
    ELSE LET shorter == SeqsUpTo(S, n - 1)
         IN shorter \cup {Append(q, x) : q \in shorter, x \in S}

NoWrite == [ok |-> FALSE, doc |-> Doc(NoId, << >>, << >>, << >>, 0, 0, << >>),
            existed |-> FALSE, before |-> 0]

(***************************************************************************)
(* OpenSearchRepo.index_tracks, one client call per step.                  *)
(***************************************************************************)
\* a write that ignores the document's id: C10 must tell it from the code's
IndexIdIgnored(d) == NoId
\* `_id = d.get("id")`
IndexId(d) == d.id

\* a counter that counts the attempts: C28 must tell it from the code's
AfterWriteAttempt(indexed, ok) == indexed + 1
\* lines 74-77: `indexed += 1` is skipped when client.index raised
AfterWrite(indexed, ok) == IF ok THEN indexed + 1 ELSE indexed

\* lines 64-69: empty batch returns 0 at once; otherwise ensure_index_exists,
\* whose own failures are swallowed (the index may stay missing).
IndexTracksCall(docs) ==
    /\ ixState = "idle" /\ pc = "idle"
    /\ UNCHANGED <<ragVars, sideVars>>
    /\ ixLast' = NoWrite
    /\ ixIndexed' = 0
    /\ ixDocs' = docs
    /\ ixReturned' = 0
    /\ IF docs = << >>
       THEN /\ ixState' = "done"
            /\ ixCalls' = << >>
            /\ UNCHANGED <<store, indexExists, ixQueue>>
       ELSE /\ ixState' = "writing"
            /\ ixQueue' = docs
            /\ \E created \in BOOLEAN :
                 /\ indexExists' = (indexExists \/ created)
                 /\ ixCalls' = <<[op |-> "ensure", ok |-> indexExists \/ created]>>
            /\ UNCHANGED store

\* lines 70-77: one iteration of the loop; a failed write is skipped.
IndexWrite ==
    /\ ixState = "writing"
    /\ UNCHANGED <<ragVars, sideVars>>
    /\ ixQueue # << >>
    /\ LET d == Head(ixQueue)
           given == IndexId(d)
       IN \E ok \in BOOLEAN :
            \E _id \in (IF given # NoId THEN {given} ELSE FreshIds(store)) :
              /\ ixQueue' = Tail(ixQueue)
              /\ ixCalls' = Append(ixCalls, [op |-> "index", ok |-> ok])
              /\ ixIndexed' = AfterWrite(ixIndexed, ok)
              /\ UNCHANGED <<ixState, ixDocs, ixReturned>>
              /\ IF ok
                 THEN /\ store' = OsIndex(store, _id, d)
                      /\ indexExists' = TRUE
                      /\ ixLast' = [ok |-> TRUE, doc |-> d,
                                    existed |-> _id \in DOMAIN store,
                                    before |-> Cardinality(DOMAIN store)]
                 ELSE /\ UNCHANGED <<store, indexExists>>
                      /\ ixLast' = [NoWrite EXCEPT !.doc = d]

\* lines 78-83: after the loop the refresh is requested (its failure is
\* swallowed) and `indexed` is returned
IndexRefresh ==
    /\ ixState = "writing"
    /\ UNCHANGED <<ragVars, sideVars>>
    /\ ixQueue = << >>
    /\ ixState' = "done"
    /\ \E ok \in BOOLEAN : ixCalls' = Append(ixCalls, [op |-> "refresh", ok |-> ok])
    /\ ixReturned' = ixIndexed
    /\ UNCHANGED <<store, indexExists, ixQueue, ixIndexed, ixLast, ixDocs>>

\* the caller has the value; the locals of the call end
IndexReturn ==
    /\ ixState = "done"
    /\ UNCHANGED <<ragVars, sideVars>>
    /\ ixState' = "idle"
    /\ ixIndexed' = 0
    /\ ixLast' = NoWrite
    /\ ixDocs' = << >> /\ ixCalls' = << >> /\ ixReturned' = 0
    /\ UNCHANGED <<store, indexExists, ixQueue>>

(***************************************************************************)
(* Numeric helpers and configuration.                                      *)
(***************************************************************************)
Max(a, b) == IF a >= b THEN a ELSE b
Min(a, b) == IF a <= b THEN a ELSE b
Take(s, n) == SubSeq(s, 1, Min(n, Len(s)))

\* Config.EMOTION_PARAMS, in hundredths
EMOTION_PARAMS ==
    (happy :> [valence |-> <<60, 100>>, energy |-> <<50, 100>>]) @@
    (sad :> [valence |-> <<0, 40>>, energy |-> <<0, 50>>]) @@
    (angry :> [valence |-> <<20, 60>>, energy |-> <<60, 100>>]) @@
    (relaxed :> [valence |-> <<50, 100>>, energy |-> <<0, 50>>])

\* a lookup that compares the label as given: C14 must tell it from the
\* code's
emotion_to_params_cased(e) ==
    IF e \in DOMAIN EMOTION_PARAMS
    THEN EMOTION_PARAMS[e]
    ELSE [valence |-> <<40, 60>>, energy |-> <<40, 60>>]

\* RAGPipeline.emotion_to_params
emotion_to_params(e) ==
    IF Lower(e) \in DOMAIN EMOTION_PARAMS
    THEN EMOTION_PARAMS[Lower(e)]
    ELSE [valence |-> <<40, 60>>, energy |-> <<40, 60>>]

\* a relaxation that moves the lower end only: C23 must tell it from the
\* code's
relax_range_lower(bounds, step, min_val, max_val) ==
    <<Max(min_val, bounds[1] - step), bounds[2]>>
\* utils.relax_range
relax_range(bounds, step, min_val, max_val) ==
    <<Max(min_val, bounds[1] - step), Min(max_val, bounds[2] + step)>>

RELAX_STEP == 10    \* `relax_range(valence, 0.1)`
UNIT_MAX == 100     \* relax_range's default max_val = 1.0
DESIRED_MIN == 20   \* `desired = max(min_tracks, 20)`
CAP_MIN == 50       \* `max(min_tracks * 2, 50)`
max_iters == 3      \* `max_iters = 3`

\* `max(min_tracks * 2, 50)`: the query limit and the presentation cap
Cap(m) == Max(m * 2, CAP_MIN)
\* `desired = max(min_tracks, 20)`
Desired(m) == Max(m, DESIRED_MIN)
\* a loop that runs once too often: C1 must tell it from the code's
RetrievalRoundsOneMore(r) == r + 2
\* `range(max_relax_steps + 1)`
RetrievalRounds(r) == r + 1

(***************************************************************************)
(* Document Store reads.                                                   *)
(***************************************************************************)
RECURSIVE SortedSeq(_)
SortedSeq(S) ==
    IF S = {} THEN << >>
    ELSE LET m == CHOOSE i \in S : \A j \in S : StrLeq(i, j)
         IN <<m>> \o SortedSeq(S \ {m})

\* the `_source` list of both read queries: the stored attributes returned
SourceOf(d) ==
    [id |-> d.id, title |-> d.title, artist |-> d.artist, mood |-> d.mood,
     valence |-> d.valence, energy |-> d.energy]

InRange(x, r) == r[1] <= x /\ x <= r[2]

\* the bool/must query of search_tracks_by_emotion run on the store: hits
\* in _id order, at most `limit` of them
SearchHits(st, mood, val, eng, limit) ==
    LET match(i) == /\ InRange(st[i].valence, val)
                    /\ InRange(st[i].energy, eng)
                    /\ (mood # << >> => st[i].mood = mood)
        ids == SortedSeq({i \in DOMAIN st : match(i)})
    IN Take([k \in 1..Len(ids) |-> SourceOf(st[ids[k]])], limit)

\* OpenSearchRepo.find_by_title_artist: match (operator "and") on the
\* lower-casing analyzer; the titles and artists of the model are single
\* words, for which the match is equality of the folded words.  Any failure
\* (store down, index missing) yields [].
find_by_title_artist(st, exists, up, title, artist, limit) ==
    IF ~up \/ ~exists THEN << >>
    ELSE LET match(i) == /\ Lower(Strip(st[i].title)) = Lower(Strip(title))
                         /\ Lower(Strip(st[i].artist)) = Lower(Strip(artist))
             ids == SortedSeq({i \in DOMAIN st : match(i)})
         IN Take([k \in 1..Len(ids) |-> SourceOf(st[ids[k]])], Max(1, limit))

(***************************************************************************)
(* Generative Curator.                                                     *)
(***************************************************************************)
Sug(title, artist) == [title |-> title, artist |-> artist]

\* what the model answers (the parsed JSON array), before curate_songs
\* cleans it: " A"/"x", "a"/"x", ""/"x"
ReplyMixed ==
    << Sug(<<32, 65>>, <<120>>), Sug(<<97>>, <<120>>), Sug(<< >>, <<120>>) >>
\* n songs "c", "d", ... of one artist
ReplyNames(n, artist) == [i \in 1..n |-> Sug(<<98 + i>>, artist)]
LLMReplies ==
    { ReplyMixed, ReplyNames(DESIRED_MIN - 1, <<121>>), ReplyNames(DESIRED_MIN + 1, <<122>>) }

\* LLMClient.curate_songs, lines 234-241: strip, drop blanks, `out[:count]`
curate_songs(parsed, count) ==
    LET clean == [i \in 1..Len(parsed) |->
                    Sug(Strip(parsed[i].title), Strip(parsed[i].artist))]
        keep(it) == it.title # << >> /\ it.artist # << >>
    IN Take(SelectSeq(clean, keep), count)

(***************************************************************************)
(* Catalog Resolver.                                                       *)
(***************************************************************************)
spotify == <<115>>

Rec(ext, title, artist) ==
    [id |-> NoId, external_id |-> ext, provider |-> spotify,
     title |-> title, artist |-> artist]

\* what the service answers to /catalog/resolve-batch for `prs`: one group
\* of matches per requested pair.
\*   "echo"  the requested title and artist, as requested
\*   "pad"   the requested title with a leading space
\*   "canon" one canonical track, "a" by "x", whatever was requested
\*   "mixed" the track " A" by "x" for the first pair, "pad" for the others
\*   "blank" a title made of one space
\*   "none"  no match for any pair
\*   "flood" more groups than the cap, whatever was requested: tracks with
\*           the title " " by artists "x1", "x2", ...
ResolverModes == {"echo", "pad", "canon", "mixed", "blank", "none", "flood"}
ResolverAnswer(mode, prs) ==
    IF mode = "flood"
    THEN [i \in 1..(CAP_MIN + 1) |-> <<Rec(Num(200 + i), <<32>>, <<120>> \o Num(i))>>]
    ELSE
    [i \in 1..Len(prs) |->
        CASE mode = "echo" -> <<Rec(Num(100 + i), prs[i].title, prs[i].artist)>>
          [] mode = "pad" -> <<Rec(Num(100 + i), <<32>> \o prs[i].title, prs[i].artist)>>
          [] mode = "canon" -> <<Rec(Num(900), <<97>>, <<120>>)>>
          [] mode = "mixed" -> IF i = 1 THEN <<Rec(Num(900), <<32, 65>>, <<120>>)>>
                               ELSE <<Rec(Num(100 + i), <<32>> \o prs[i].title, prs[i].artist)>>
          [] mode = "blank" -> <<Rec(Num(100 + i), <<32>>, prs[i].artist)>>
          [] OTHER -> << >>]

\* MusicServiceClient.resolve_batch, lines 58-63: the first match of every
\* group that has one
resolve_batch(groups) ==
    LET hit(g) == g # << >>
        some == SelectSeq(groups, hit)
    IN [i \in 1..Len(some) |-> some[i][1]]

\* what /catalog/audio-features answers for `ids`
AudioAnswer(ids) ==
    [x \in {ids[i] : i \in 1..Len(ids)} |-> [valence |-> 30, energy |-> 70]]
NoFeats == [x \in {} |-> 0]

(***************************************************************************)
(* RAGPipeline.search_tracks: the pieces of the augmentation.              *)
(***************************************************************************)
\* lines 56-61: keys of the retrieved tracks
RECURSIVE KeysOfTracks(_)
KeysOfTracks(ts) ==
    IF ts = << >> THEN {}
    ELSE LET ti == Lower(Strip(Head(ts).title))
             ar == Lower(Strip(Head(ts).artist))
         IN (IF ti # << >> /\ ar # << >> THEN {<<ti, ar>>} ELSE {})
            \cup KeysOfTracks(Tail(ts))

\* a loop condition that allows a fourth round: C7 must tell it from the
\* code's
RoundsContinueFourth(prs, desired, idx) == Len(prs) < desired /\ idx < max_iters + 1
\* line 69: the loop condition of the augmentation rounds
RoundsContinue(prs, desired, idx) == Len(prs) < desired /\ idx < max_iters

\* lines 78-96: filter one round's suggestions into existing_keys and pairs
RECURSIVE FilterSuggestions(_, _, _, _, _, _)
FilterSuggestions(sugs, keys, prs, st, exists, up) ==
    IF sugs = << >> THEN [keys |-> keys, pairs |-> prs]
    ELSE LET title == Strip(Head(sugs).title)
             artist == Strip(Head(sugs).artist)
             key == <<Lower(title), Lower(artist)>>
             rest == Tail(sugs)
         IN IF title = << >> \/ artist = << >>
            THEN FilterSuggestions(rest, keys, prs, st, exists, up)
            ELSE IF key \in keys
            THEN FilterSuggestions(rest, keys, prs, st, exists, up)
            ELSE IF find_by_title_artist(st, exists, up, title, artist, 1) # << >>
            THEN FilterSuggestions(rest, keys, prs, st, exists, up)
            ELSE FilterSuggestions(rest, keys \cup {key},
                                   Append(prs, Sug(title, artist)), st, exists, up)

\* lines 87-94: the keys of the suggestions of one round that the store
\* already holds (`if found_in_kb: continue`)
RECURSIVE StoreHits(_, _, _, _, _)
StoreHits(sugs, keys, st, exists, up) ==
    IF sugs = << >> THEN {}
    ELSE LET title == Strip(Head(sugs).title)
             artist == Strip(Head(sugs).artist)
             key == <<Lower(title), Lower(artist)>>
             rest == Tail(sugs)
         IN IF title = << >> \/ artist = << >> \/ key \in keys
            THEN StoreHits(rest, keys, st, exists, up)
            ELSE IF find_by_title_artist(st, exists, up, title, artist, 1) # << >>
            THEN {key} \cup StoreHits(rest, keys, st, exists, up)
            ELSE StoreHits(rest, keys \cup {key}, st, exists, up)

\* line 102: ids of the resolved Spotify records
SpotifyIds(recs) ==
    LET sp(t) == t.provider = spotify /\ t.external_id # NoId
        some == SelectSeq(recs, sp)
    IN [i \in 1..Len(some) |-> some[i].external_id]

\* line 120: the key under which a resolved record is deduplicated
FoundKey(t) == <<Lower(t.title), Lower(t.artist)>>

\* lines 111-139: the generated candidates
RECURSIVE BuildFound(_, _, _, _, _)
BuildFound(recs, seen, feats, base, e) ==
    IF recs = << >> THEN << >>
    ELSE LET t == Head(recs)
             rest == Tail(recs)
             v_mid == (base.valence[1] + base.valence[2]) \div 2
             e_mid == (base.energy[1] + base.energy[2]) \div 2
             has == t.external_id # NoId /\ t.external_id \in DOMAIN feats
         IN IF t.title = << >> \/ t.artist = << >>
            THEN BuildFound(rest, seen, feats, base, e)
            ELSE IF FoundKey(t) \in seen
            THEN BuildFound(rest, seen, feats, base, e)
            ELSE << [id |-> IF t.id # NoId THEN t.id ELSE t.external_id,
                     title |-> t.title, artist |-> t.artist, mood |-> Lower(e),
                     valence |-> IF has THEN feats[t.external_id].valence ELSE v_mid,
                     energy |-> IF has THEN feats[t.external_id].energy ELSE e_mid] >>
                 \o BuildFound(rest, seen \cup {FoundKey(t)}, feats, base, e)

\* a key that keeps the case: C2 must tell it from the code's
MergeKeyCased(it) == <<Strip(it.title), Strip(it.artist)>>
\* line 147: the key of the merge
MergeKey(it) == <<Lower(Strip(it.title)), Lower(Strip(it.artist))>>

\* lines 146-153: one list of the merge
RECURSIVE MergeList(_, _, _)
MergeList(lst, merged, seen) ==
    IF lst = << >> THEN [merged |-> merged, seen |-> seen]
    ELSE LET it == Head(lst)
             k == MergeKey(it)
         IN IF k[1] = << >> \/ k[2] = << >>
            THEN MergeList(Tail(lst), merged, seen)
            ELSE IF k \in seen
            THEN MergeList(Tail(lst), merged, seen)
            ELSE MergeList(Tail(lst), Append(merged, it), seen \cup {k})

\* a merge that takes the generated list first: C4 must tell it from the
\* code's
MergeGeneratedFirst(first, second) ==
    LET one == MergeList(second, << >>, {})
    IN MergeList(first, one.merged, one.seen).merged
\* lines 143-153: `for lst in (tracks or []), found`
Merge(first, second) ==
    LET one == MergeList(first, << >>, {})
    IN MergeList(second, one.merged, one.seen).merged

\* a handler that returns nothing: C8 must tell it from the code's
ExceptionFallbackEmpty(ts) == << >>
\* lines 156-157: `except Exception: return tracks`
ExceptionFallback(ts) == ts

(***************************************************************************)
(* RAGPipeline.search_tracks as steps: one per collaborator round trip.    *)
(***************************************************************************)

\* the requests of the model
Emotions == {happy, Sad}
MinTracksValues == (1..MaxMinTracks) \cup {DESIRED_MIN + 1}

\* what the collaborators answer: to the pipeline called alone, any of the
\* answers of the model; within a /search request, one of a few
RouteReplies == {ReplyMixed, ReplyNames(DESIRED_MIN + 1, <<122>>)}
RouteModes == {"echo", "canon"}
CuratorReplies == IF rpc = "idle" THEN LLMReplies ELSE RouteReplies
CatalogModes == IF rpc = "idle" THEN ResolverModes ELSE RouteModes
StoreAnswers == IF rpc = "idle" THEN BOOLEAN ELSE {TRUE}

\* no function is exercised alone
NoFunction == fn = "none" /\ fnArgs = << >> /\ fnOut = << >>

\* no two index_tracks calls overlap
NoWriters == cBatch = << >> /\ cDone = << >> /\ cLost = {}

\* no request is being served
NoRequest ==
    /\ rpc = "idle"
    /\ rEmotion = << >> /\ rMinTracks = 0 /\ rTracks = << >>
    /\ rRetrieved = 0 /\ rCurated = 0
    /\ rAugmented = << >> /\ rMerged = << >> /\ rOut = << >>
    /\ rToIndex = << >> /\ rEmbed = "none" /\ rVecs = << >> /\ rLost = {} /\ rIndexed = 0

NoCall ==
    /\ pc = "idle"
    /\ emotion = << >> /\ min_tracks = 0 /\ max_relax_steps = 0
    /\ attempt = 0 /\ valence = <<0, 0>> /\ energy = <<0, 0>> /\ tracks = << >>
    /\ existing_keys = {} /\ pairs = << >> /\ iter_idx = 0 /\ found = << >>
    /\ resolved = << >> /\ kb_hits = {}
    /\ result = << >> /\ path = "none" /\ failed = {}
    /\ queries = 0 /\ curator_calls = 0 /\ curator_count = 0

\* lines 33-35: entry
EnterSearchTracks(e, m, r) ==
    /\ pc = "idle" /\ ixState = "idle"
    /\ pc' = "retrieve"
    /\ emotion' = e /\ min_tracks' = m /\ max_relax_steps' = r
    /\ valence' = emotion_to_params(e).valence
    /\ energy' = emotion_to_params(e).energy
    /\ UNCHANGED <<attempt, tracks, augVars, result, path, failed, queries, curator_calls,
                   curator_count>>

\* a caller of the pipeline alone
SearchTracksCall(e, m, r) ==
    /\ EnterSearchTracks(e, m, r)
    /\ UNCHANGED <<storeVars, ixVars, sideVars>>

\* lines 38-49 with search_tracks_by_emotion (opensearch_client.py 50-60):
\* one iteration of the retrieval loop.  A missing index (NotFoundError) is
\* answered by [] after ensure_index_exists, which may fail silently; any
\* other error of client.search is not caught, neither there nor here.
Retrieve ==
    /\ pc = "retrieve"
    /\ queries' = queries + 1
    /\ UNCHANGED <<store, ixVars, sideVars, argVars, pairs, iter_idx, found, resolved, kb_hits,
                   failed, curator_calls, curator_count>>
    /\ \E up \in BOOLEAN :
        IF ~up
        THEN /\ pc' = "done" /\ path' = "raised" /\ result' = << >>
             /\ UNCHANGED <<indexExists, retrVars, existing_keys>>
        ELSE /\ \E created \in (IF indexExists THEN {TRUE} ELSE BOOLEAN) :
                    indexExists' = created
             /\ LET hits == IF indexExists
                            THEN SearchHits(store, Lower(emotion), valence, energy,
                                            Cap(min_tracks))
                            ELSE << >>
                IN /\ tracks' = hits
                   /\ IF Len(hits) >= min_tracks
                      THEN /\ pc' = "done" /\ path' = "early"
                           /\ result' = Take(hits, Cap(min_tracks))
                           /\ UNCHANGED <<attempt, valence, energy, existing_keys>>
                      ELSE /\ valence' = relax_range(valence, RELAX_STEP, 0, UNIT_MAX)
                           /\ energy' = relax_range(energy, RELAX_STEP, 0, UNIT_MAX)
                           /\ attempt' = attempt + 1
                           /\ UNCHANGED <<result, path>>
                           /\ IF attempt + 1 < RetrievalRounds(max_relax_steps)
                              THEN pc' = "retrieve" /\ UNCHANGED existing_keys
                              ELSE pc' = "augment" /\ existing_keys' = KeysOfTracks(hits)

\* lines 53-54: LLMClient() raises (no API key, llm.py 9-11), caught at
\* lines 156-157
LLMClientFails ==
    /\ pc = "augment" /\ iter_idx = 0
    /\ failed' = failed \cup {"config"}
    /\ pc' = "done" /\ path' = "fallback" /\ result' = ExceptionFallback(tracks)
    /\ UNCHANGED <<storeVars, ixVars, sideVars, argVars, retrVars, augVars, queries,
                   curator_calls, curator_count>>

\* lines 69-96: one round that the curator answers
AugmentRound ==
    /\ pc = "augment"
    /\ \E reply \in CuratorReplies, up \in StoreAnswers :
        \E f \in { FilterSuggestions(curate_songs(reply, Desired(min_tracks)),
                                     existing_keys, pairs, store, indexExists, up) } :
           /\ existing_keys' = f.keys
           /\ pairs' = f.pairs
           /\ kb_hits' = kb_hits \cup
                    StoreHits(curate_songs(reply, Desired(min_tracks)), existing_keys,
                              store, indexExists, up)
           /\ pc' = IF RoundsContinue(f.pairs, Desired(min_tracks), iter_idx + 1)
                    THEN "augment" ELSE "resolve"
    /\ iter_idx' = iter_idx + 1
    /\ curator_calls' = curator_calls + 1
    /\ curator_count' = Desired(min_tracks)
    /\ UNCHANGED <<storeVars, ixVars, sideVars, argVars, retrVars, found, resolved, result, path,
                   failed, queries>>

\* line 77 raising, caught at lines 156-157
AugmentRoundFails ==
    /\ pc = "augment"
    /\ iter_idx' = iter_idx + 1
    /\ curator_calls' = curator_calls + 1
    /\ curator_count' = Desired(min_tracks)
    /\ failed' = failed \cup {"curator"}
    /\ pc' = "done" /\ path' = "fallback" /\ result' = ExceptionFallback(tracks)
    /\ UNCHANGED <<storeVars, ixVars, sideVars, argVars, retrVars, existing_keys, pairs, found,
                   resolved, kb_hits, queries>>

\* lines 98-155: resolve, enrich, build, merge, return
Resolve ==
    /\ pc = "resolve"
    /\ \E mode \in CatalogModes, audioOk \in BOOLEAN :
        \E res \in { resolve_batch(ResolverAnswer(mode, pairs)) } :
        \E sp_ids \in { SpotifyIds(res) } :
        \E feats \in { IF sp_ids # << >> /\ audioOk THEN AudioAnswer(sp_ids) ELSE NoFeats } :
        \E fnd \in { BuildFound(res, existing_keys, feats,
                                emotion_to_params(emotion), emotion) } :
        \E merged \in { Merge(tracks, fnd) } :
           /\ found' = fnd
           /\ resolved' = res
           /\ failed' = IF sp_ids # << >> /\ ~audioOk THEN failed \cup {"audio"} ELSE failed
           /\ result' = IF merged # << >> THEN Take(merged, Cap(min_tracks)) ELSE fnd
           /\ path' = IF merged # << >> THEN "merged" ELSE "found"
    /\ pc' = "done"
    /\ UNCHANGED <<storeVars, ixVars, sideVars, argVars, retrVars, existing_keys, pairs, iter_idx,
                   kb_hits, queries, curator_calls, curator_count>>

\* line 99 raising, caught at lines 156-157
ResolveFails ==
    /\ pc = "resolve"
    /\ failed' = failed \cup {"resolver"}
    /\ pc' = "done" /\ path' = "fallback" /\ result' = ExceptionFallback(tracks)
    /\ UNCHANGED <<storeVars, ixVars, sideVars, argVars, retrVars, augVars, queries, curator_calls, curator_count>>

\* the caller takes the result; the locals of the invocation end
LeaveSearchTracks ==
    /\ pc = "done"
    /\ pc' = "idle"
    /\ emotion' = << >> /\ min_tracks' = 0 /\ max_relax_steps' = 0
    /\ attempt' = 0 /\ valence' = <<0, 0>> /\ energy' = <<0, 0>> /\ tracks' = << >>
    /\ existing_keys' = {} /\ pairs' = << >> /\ iter_idx' = 0 /\ found' = << >>
    /\ resolved' = << >> /\ kb_hits' = {}
    /\ result' = << >> /\ path' = "none" /\ failed' = {}
    /\ queries' = 0 /\ curator_calls' = 0 /\ curator_count' = 0

SearchTracksReturn ==
    /\ LeaveSearchTracks
    /\ UNCHANGED <<storeVars, ixVars, sideVars>>

Init ==
    /\ store = EmptyStore
    /\ indexExists = FALSE
    /\ ixState = "idle"
    /\ ixQueue = << >>
    /\ ixIndexed = 0
    /\ ixLast = NoWrite
    /\ ixDocs = << >> /\ ixCalls = << >> /\ ixReturned = 0
    /\ NoCall
    /\ mState = "off" /\ mTracks = << >> /\ mGenerated = << >> /\ mMerged = << >>
    /\ NoFunction
    /\ NoRequest /\ searches = 0 /\ seeds = 0
    /\ NoWriters

Next ==
    \/ \E docs \in SeqsUpTo(DocPool, MaxBatch) : IndexTracksCall(docs)
    \/ IndexWrite
    \/ IndexRefresh
    \/ IndexReturn
    \/ \E e \in Emotions, m \in MinTracksValues, r \in 0..MaxRelaxSteps :
            SearchTracksCall(e, m, r)
    \/ Retrieve
    \/ LLMClientFails
    \/ AugmentRound
    \/ AugmentRoundFails
    \/ Resolve
    \/ ResolveFails
    \/ SearchTracksReturn

Spec == Init /\ [][Next]_vars

\* a step of a running invocation
SearchTracksStep ==
    Retrieve \/ AugmentRoundFails \/ ResolveFails \/ LLMClientFails \/ AugmentRound \/ Resolve

(***************************************************************************)
(* The merge step alone, on arbitrary lists: the pipeline's               *)
(* (rag_pipeline.py 143-153) and the /search route's (routes/rag.py        *)
(* 114-128), which shuffles the generated list before and the merged list  *)
(* after.                                                                  *)
(***************************************************************************)
MaxMergeLen == 2    \* entries in each input list of the merge

\* routes/rag.py line 120: the key of the route's merge
RouteMergeKey(it) == <<Lower(Strip(it.title)), Lower(Strip(it.artist))>>

\* routes/rag.py lines 116-126: `for lst in (tracks or []), augmented`.  The
\* loop appends an entry when both halves of its key are non-empty and no
\* earlier entry of the two lists, taken in this order, has the key (`seen`
\* holds exactly the keys of the entries appended so far); `kept` are the
\* positions appended, `nth(r)` the r-th of them.
RouteMerge(first, second) ==
    LET all == first \o second
        key(i) == RouteMergeKey(all[i])
        keep(i) == /\ key(i)[1] # << >> /\ key(i)[2] # << >>
                   /\ \A j \in 1..(i - 1) : key(j) # key(i)
        kept == {i \in 1..Len(all) : keep(i)}
        nth(r) == CHOOSE i \in kept : Cardinality({j \in kept : j <= i}) = r
    IN [r \in 1..Cardinality(kept) |-> all[nth(r)]]

\* random.shuffle: any order of the same entries
Shuffles(s) == {[i \in 1..Len(s) |-> s[p[i]]] : p \in Permutations(1..Len(s))}

Entry(id, title, artist) ==
    [id |-> id, title |-> title, artist |-> artist, mood |-> happy,
     valence |-> 80, energy |-> 80]

\* entries of the input lists: "a"/"x", "A"/"x", " a"/"x", " "/"x", "b"/"",
\* "b"/"X"
EntryPool ==
    { Entry(Num(1), <<97>>, <<120>>), Entry(Num(2), <<65>>, <<120>>),
      Entry(Num(3), <<32, 97>>, <<120>>), Entry(Num(4), <<32>>, <<120>>),
      Entry(Num(5), <<98>>, << >>), Entry(Num(6), <<98>>, <<88>>) }

InitMerge ==
    /\ store = EmptyStore
    /\ indexExists = FALSE
    /\ ixState = "idle"
    /\ ixQueue = << >>
    /\ ixIndexed = 0
    /\ ixLast = NoWrite
    /\ ixDocs = << >> /\ ixCalls = << >> /\ ixReturned = 0
    /\ NoCall
    /\ mState = "in"
    /\ mTracks \in SeqsUpTo(EntryPool, MaxMergeLen)
    /\ mGenerated \in SeqsUpTo(EntryPool, MaxMergeLen)
    /\ mMerged = << >>
    /\ NoFunction
    /\ NoRequest /\ searches = 0 /\ seeds = 0
    /\ NoWriters

\* rag_pipeline.py lines 143-153
PipelineMerge ==
    /\ mState = "in"
    /\ mMerged' = Merge(mTracks, mGenerated)
    /\ mState' = "pipeline"
    /\ UNCHANGED <<storeVars, ixVars, ragVars, mTracks, mGenerated, fnVars, routeVars, concVars>>

\* routes/rag.py lines 113-128
RouteMergeStep ==
    /\ mState = "in"
    /\ \E augmented \in Shuffles(mGenerated) :
         mMerged' \in Shuffles(RouteMerge(mTracks, augmented))
    /\ mState' = "route"
    /\ UNCHANGED <<storeVars, ixVars, ragVars, mTracks, mGenerated, fnVars, routeVars, concVars>>

NextMerge == PipelineMerge \/ RouteMergeStep

SpecMerge == InitMerge /\ [][NextMerge]_vars

(***************************************************************************)
(* Functions alone, on arguments drawn from bounded sets: the documents    *)
(* the /search route builds for indexing (routes/rag.py 136-149),          *)
(* relax_range (utils.py 38-43) on binary floating point, and              *)
(* emotion_to_params (rag_pipeline.py 17-23).                              *)
(***************************************************************************)
LongLen == 300      \* length of the long title of the model

\* str.replace(old, new), both of one character
Replace(s, old, new) == [i \in 1..Len(s) |-> IF s[i] = old THEN new ELSE s[i]]

\* a slug that keeps the case: C11 must tell it from the code's
SlugCased(s) == Replace(Strip(s), 32, 45)
\* routes/rag.py lines 140-141: `.strip().lower().replace(" ", "-")`
Slug(s) == Replace(Lower(Strip(s)), 32, 45)

ID_MAX == 256       \* `[:256]`

\* routes/rag.py line 142: f"llm-{emotion}-{ti}-{ar}"[:256]
DerivedId(e, title, artist) ==
    Take(<<108, 108, 109, 45>> \o e \o <<45>> \o Slug(title) \o <<45>> \o Slug(artist),
         ID_MAX)

\* routes/rag.py lines 137-147: the document built for one merged entry at
\* time `now`; the entries of the model all carry a mood, so that
\* `setdefault("mood", emotion)` leaves it
IndexDoc(it, e, now) ==
    [id |-> IF it.id # NoId THEN it.id ELSE DerivedId(e, it.title, it.artist),
     title |-> it.title, artist |-> it.artist, mood |-> it.mood,
     valence |-> it.valence, energy |-> it.energy,
     created_at |-> now,
     llm_text |-> e \o <<32, 124, 32>> \o it.title \o <<32, 45, 32>> \o it.artist]

\* routes/rag.py lines 134-149: `to_index`
ToIndex(merged, e, now) == [i \in 1..Len(merged) |-> IndexDoc(merged[i], e, now)]

\* datetime.utcnow() of two runs
Times == {1, 2}

\* the merged entries of the model: titles "Song", " a B " and a long one,
\* artists "Artist" and "x y", without an id and with id "7"
Song == <<83, 111, 110, 103>>
Artist == <<65, 114, 116, 105, 115, 116>>
LongTitle == [i \in 1..LongLen |-> 97]
IdEntries ==
    { [id |-> i, title |-> t, artist |-> a, mood |-> happy, valence |-> v, energy |-> 50] :
        i \in {NoId, Num(7)}, t \in {Song, <<32, 97, 32, 66, 32>>, LongTitle},
        a \in {Artist, <<120, 32, 121>>}, v \in {30, 80} }

\* one run of the loop of lines 136-149 over the same merged list
ToIndexStep ==
    /\ fn = "to_index"
    /\ Len(fnOut) < 2
    /\ \E now \in Times :
         fnOut' = Append(fnOut, ToIndex(fnArgs.merged, fnArgs.emotion, now))
    /\ UNCHANGED <<storeVars, ixVars, ragVars, mergeVars, fn, fnArgs, routeVars, concVars>>

\* Binary floating point with FP_BITS significant bits, round to nearest,
\* ties to even (Python's float is this with 53 bits).  A number is the
\* integer count of units of 1/ONE; ONE is a power of two, so 1.0 is a float.
FP_BITS == 3
FP_EXP == 6
RECURSIVE Pow2(_)
Pow2(n) == IF n = 0 THEN 1 ELSE 2 * Pow2(n - 1)
ONE == Pow2(FP_EXP)
Abs(x) == IF x < 0 THEN -x ELSE x

\* the distance between neighbouring floats at magnitude a
RECURSIVE Spacing(_)
Spacing(a) == IF a < Pow2(FP_BITS) THEN 1 ELSE 2 * Spacing(a \div 2)

\* the float nearest to the real number x
Fl(x) ==
    LET a == Abs(x)
        q == Spacing(a)
        m == a \div q
        rem == a - m * q
        up == 2 * rem > q \/ (2 * rem = q /\ m % 2 = 1)
        r == IF up THEN (m + 1) * q ELSE m * q
    IN IF x < 0 THEN -r ELSE r

\* a relaxation that narrows: C12 must tell it from the code's
relax_range_narrowing(bounds, step, min_val, max_val) ==
    <<Max(min_val, Fl(bounds[1] + step)), Min(max_val, Fl(bounds[2] - step))>>
\* a relaxation that does not clamp the upper end: C13 must tell it from the
\* code's
relax_range_unclamped(bounds, step, min_val, max_val) ==
    <<Max(min_val, Fl(bounds[1] - step)), Fl(bounds[2] + step)>>
\* utils.relax_range on floats: `lo - step` and `hi + step` are rounded
relax_range_fp(bounds, step, min_val, max_val) ==
    <<Max(min_val, Fl(bounds[1] - step)), Min(max_val, Fl(bounds[2] + step))>>

\* utils.py line 38: `min_val: float = 0.0, max_val: float = 1.0`
relax_range_call(bounds, step, given, min_val, max_val) ==
    IF given THEN relax_range_fp(bounds, step, min_val, max_val)
    ELSE relax_range_fp(bounds, step, 0, ONE)

\* the floats of the model: those between -ONE/4 and 5/4 ONE
Floats == {x \in (0 - ONE \div 4)..(ONE + ONE \div 4) : Fl(x) = x}
\* the steps of the model: negative, zero, the smallest, and larger ones
Steps == {-1, 0, 1, 2, ONE \div Pow2(FP_BITS), ONE \div 4, 2 * ONE}
\* the limits a caller gives: [0, 1], [1/8, 1/2] and the crossed [1/2, 1/8]
Limits == {<<0, ONE>>, <<ONE \div 8, ONE \div 2>>, <<ONE \div 2, ONE \div 8>>}

\* relax_range applied to the range the last application returned
RelaxStep ==
    /\ fn = "relax_range"
    /\ LET cur == IF fnOut = << >> THEN fnArgs.bounds ELSE fnOut[2]
       IN fnOut' = <<cur, relax_range_call(cur, fnArgs.step, fnArgs.given,
                                           fnArgs.min_val, fnArgs.max_val)>>
    /\ UNCHANGED <<storeVars, ixVars, ragVars, mergeVars, fn, fnArgs, routeVars, concVars>>

\* the labels emotion_to_params is called with: "happy", "HAPPY", "Sad",
\* "angry", "Relaxed", "", "joy", " happy"
Labels ==
    { happy, <<72, 65, 80, 80, 89>>, Sad, angry,
      <<82, 101, 108, 97, 120, 101, 100>>, << >>, <<106, 111, 121>>,
      <<32>> \o happy }

EmotionToParamsStep ==
    /\ fn = "emotion_to_params"
    /\ fnOut = << >>
    /\ fnOut' = <<emotion_to_params(fnArgs.label)>>
    /\ UNCHANGED <<storeVars, ixVars, ragVars, mergeVars, fn, fnArgs, routeVars, concVars>>

\* the lists of a merge run twice: entries "a"/"x", "A"/"x", "b"/"X"
RunEntries == { Entry(Num(1), <<97>>, <<120>>), Entry(Num(2), <<65>>, <<120>>),
                Entry(Num(6), <<98>>, <<88>>) }

\* one run of a merge on the same two lists: the pipeline's
\* (rag_pipeline.py 143-153) or the /search route's with its two shuffles
\* (routes/rag.py 114-128)
MergeRunStep ==
    /\ fn \in {"merge", "route_merge"}
    /\ Len(fnOut) < 2
    /\ IF fn = "merge"
       THEN fnOut' = Append(fnOut, Merge(fnArgs.tracks, fnArgs.generated))
       ELSE \E augmented \in Shuffles(fnArgs.generated) :
            \E merged \in Shuffles(RouteMerge(fnArgs.tracks, augmented)) :
               fnOut' = Append(fnOut, merged)
    /\ UNCHANGED <<storeVars, ixVars, ragVars, mergeVars, fn, fnArgs, routeVars, concVars>>

InitFunctions ==
    /\ store = EmptyStore
    /\ indexExists = FALSE
    /\ ixState = "idle"
    /\ ixQueue = << >>
    /\ ixIndexed = 0
    /\ ixLast = NoWrite
    /\ ixDocs = << >> /\ ixCalls = << >> /\ ixReturned = 0
    /\ NoCall
    /\ mState = "off" /\ mTracks = << >> /\ mGenerated = << >> /\ mMerged = << >>
    /\ NoRequest /\ searches = 0 /\ seeds = 0
    /\ NoWriters
    /\ fnOut = << >>
    /\ \/ /\ fn = "to_index"
          /\ fnArgs \in [merged : SeqsUpTo(IdEntries, 2), emotion : {sad, happy}]
       \/ /\ fn = "relax_range"
          /\ fnArgs \in [bounds : Floats \X Floats, step : Steps, given : {FALSE},
                         min_val : {0}, max_val : {ONE}]
                        \cup
                        { [bounds |-> b, step |-> st, given |-> TRUE,
                           min_val |-> l[1], max_val |-> l[2]] :
                             b \in Floats \X Floats, st \in Steps, l \in Limits }
       \/ /\ fn = "emotion_to_params"
          /\ fnArgs \in [label : Labels]
       \/ /\ fn \in {"merge", "route_merge"}
          /\ fnArgs \in [tracks : SeqsUpTo(RunEntries, 2), generated : SeqsUpTo(RunEntries, 2)]

NextFunctions == ToIndexStep \/ RelaxStep \/ EmotionToParamsStep \/ MergeRunStep

SpecFunctions == InitFunctions /\ [][NextFunctions]_vars

(***************************************************************************)
(* The /search route (routes/rag.py 14-181) around the pipeline, and the   *)
(* seed run (seed_data.py), both writing to the Document Store.            *)
(***************************************************************************)
MaxSearches == 1    \* /search requests in one behaviour
MaxSeeds == 1       \* seed runs in one behaviour

MIN_TRACKS == 20    \* Config.MIN_TRACKS with the environment's default
PER_EMOTION == 25   \* `seed_knowledge(per_emotion: int = 25)`
DEFAULT_RELAX == 2  \* `max_relax_steps: int = 2`

\* "Happy"
Happy == <<72, 97, 112, 112, 121>>

\* the request bodies of the model: `emotion` given or not, `min_tracks`
\* absent (0) or given
RouteRequests ==
    { [emotion |-> Happy, min_tracks |-> 0], [emotion |-> << >>, min_tracks |-> MIN_TRACKS + 1] }

\* line 22: `(p.get("emotion") or "relaxed").lower()`
RouteEmotion(p) == Lower(IF p.emotion # << >> THEN p.emotion ELSE relaxed)
\* lines 23-24
RouteMinTracks(p) ==
    Max(MIN_TRACKS, IF p.min_tracks # 0 THEN p.min_tracks ELSE MIN_TRACKS)

\* line 46: `extra_needed = max(0, min_tracks // 2)`
ExtraNeeded(m) == Max(0, m \div 2)

\* lines 65-75: the new pairs among the suggestions
RECURSIVE RoutePairs(_, _)
RoutePairs(sugs, keys) ==
    IF sugs = << >> THEN << >>
    ELSE LET title == Strip(Head(sugs).title)
             artist == Strip(Head(sugs).artist)
             key == <<Lower(title), Lower(artist)>>
         IN IF title = << >> \/ artist = << >> \/ key \in keys
            THEN RoutePairs(Tail(sugs), keys)
            ELSE <<Sug(title, artist)>> \o RoutePairs(Tail(sugs), keys \cup {key})

\* line 94: the key under which a resolved record is deduplicated
RouteKey(t) == <<Lower(t.title), Lower(t.artist)>>

\* lines 89-110: `augmented`, deduplicated against itself only
RECURSIVE RouteBuild(_, _, _, _, _)
RouteBuild(recs, augmented, feats, base, e) ==
    IF recs = << >> THEN augmented
    ELSE LET t == Head(recs)
             v_mid == (base.valence[1] + base.valence[2]) \div 2
             e_mid == (base.energy[1] + base.energy[2]) \div 2
             has == t.external_id # NoId /\ t.external_id \in DOMAIN feats
             keys == {RouteKey(augmented[i]) : i \in 1..Len(augmented)}
         IN IF t.title = << >> \/ t.artist = << >> \/ RouteKey(t) \in keys
            THEN RouteBuild(Tail(recs), augmented, feats, base, e)
            ELSE RouteBuild(Tail(recs),
                    Append(augmented,
                        [id |-> IF t.id # NoId THEN t.id ELSE t.external_id,
                         title |-> t.title, artist |-> t.artist, mood |-> e,
                         valence |-> IF has THEN feats[t.external_id].valence ELSE v_mid,
                         energy |-> IF has THEN feats[t.external_id].energy ELSE e_mid]),
                    feats, base, e)

\* lines 34-112: `augmented` before the shuffle.  `fail` is the call that
\* raises ("none" when none does); whichever does, `augmented = []`.
RouteAugmented(ts, e, m, reply, mode, audioOk, fail) ==
    IF ExtraNeeded(m) <= 0 \/ fail # "none" THEN << >>
    ELSE LET prs == RoutePairs(curate_songs(reply, ExtraNeeded(m)), KeysOfTracks(ts))
             recs == IF prs # << >> THEN resolve_batch(ResolverAnswer(mode, prs))
                         ELSE << >>
             sp_ids == SpotifyIds(recs)
             feats == IF sp_ids # << >> /\ audioOk THEN AudioAnswer(sp_ids) ELSE NoFeats
         IN RouteBuild(recs, << >>, feats, emotion_to_params(e), e)

\* calls of curate_songs the route itself makes (lines 48-59)
RouteCurated(m, fail) == IF ExtraNeeded(m) > 0 /\ fail # "config" THEN 1 ELSE 0

Reverse(s) == [i \in 1..Len(s) |-> s[Len(s) + 1 - i]]

\* random.shuffle on the lists of a request: every order of a short list,
\* the given and the reversed order of a longer one
RouteShuffles(s) == IF Len(s) <= MaxMergeLen THEN Shuffles(s) ELSE {s, Reverse(s)}

\* index_tracks (opensearch_client.py 70-77) as one step: the documents at
\* the positions of `lost` fail to be written and are skipped; of the
\* documents written under one _id the last one stays.  Every document of a
\* request or of a seed run carries an id.
IndexedStore(st, docs, lost) ==
    LET written == (1..Len(docs)) \ lost
        ids == {IndexId(docs[k]) : k \in written}
        last(i) == CHOOSE k \in written :
                      /\ IndexId(docs[k]) = i
                      /\ \A j \in written : IndexId(docs[j]) = i => j <= k
    IN [i \in DOMAIN st \cup ids |-> IF i \in ids THEN docs[last(i)] ELSE st[i]]

\* which writes of one index_tracks call fail: none, the first, all
Losses(docs) == {{}, {1}, 1..Len(docs)}
\* `indexed`
Indexed(docs, lost) == Cardinality((1..Len(docs)) \ lost)

NoNote == << >>
\* a note that is given at n = min_tracks as well: C16 must tell it from the
\* code's
NoteAtTheMinimum(n, m, added, indexed) ==
    IF n <= m
    THEN <<"Resultados insuficientes (", Num(n), "/", Num(m), "); se relajaron parametros.">>
    ELSE NoNote
\* lines 165-169, as the pieces of the f-string
Note(n, m, added, indexed) ==
    IF n < m
    THEN <<"Resultados insuficientes (", Num(n), "/", Num(m), "); se relajaron parametros.">>
    ELSE IF added > 0
    THEN <<"Se anadieron ", Num(added), " pistas nuevas via curador LLM. Indexadas: ",
           Num(indexed), ".">>
    ELSE NoNote

\* lines 20-29: the request is read and the pipeline is called
RouteSearchCall(p) ==
    /\ rpc = "idle" /\ searches < MaxSearches
    /\ EnterSearchTracks(RouteEmotion(p), RouteMinTracks(p), DEFAULT_RELAX)
    /\ rpc' = "pipeline"
    /\ rEmotion' = RouteEmotion(p)
    /\ rMinTracks' = RouteMinTracks(p)
    /\ searches' = searches + 1
    /\ UNCHANGED <<storeVars, ixVars, mergeVars, fnVars, concVars, rTracks, rRetrieved, rCurated,
                   rAugmented, rMerged, rOut, embVars, seeds>>

\* line 29 raising (the store query failed), caught at lines 180-181
RoutePipelineRaised ==
    /\ rpc = "pipeline" /\ pc = "done" /\ path = "raised"
    /\ LeaveSearchTracks
    /\ rpc' = "done"
    /\ rOut' = [status |-> 400, error |-> "search"]
    /\ UNCHANGED <<storeVars, ixVars, mergeVars, fnVars, concVars, rEmotion, rMinTracks, rTracks,
                   rRetrieved, rCurated, rAugmented, rMerged, embVars, searches, seeds>>

\* lines 29-128: the pipeline has returned; augment, shuffle, merge, shuffle
RouteAugment ==
    /\ rpc = "pipeline" /\ pc = "done" /\ path # "raised"
    /\ LeaveSearchTracks
    /\ rpc' = "index"
    /\ rTracks' = result
    /\ rRetrieved' = Len(tracks)
    /\ \E reply \in RouteReplies, mode \in RouteModes, audioOk \in BOOLEAN,
          fail \in {"none", "config", "curator", "resolver"} :
        /\ rCurated' = curator_calls + RouteCurated(rMinTracks, fail)
        /\ \E augmented \in RouteShuffles(RouteAugmented(result, rEmotion, rMinTracks,
                                                         reply, mode, audioOk, fail)) :
             /\ rAugmented' = augmented
             /\ rMerged' \in RouteShuffles(RouteMerge(result, augmented))
    /\ UNCHANGED <<storeVars, ixVars, mergeVars, fnVars, concVars, rEmotion, rMinTracks, rOut,
                   embVars, searches, seeds>>

\* the vector of the k-th item of an embedding reply
Vec(k) == <<k>>
\* what the embedding endpoint answers to n texts: an error, or `data` of
\* n - 1, n or n + 1 items
EmbedReplies(n) ==
    {[ok |-> FALSE, data |-> << >>]}
    \cup {[ok |-> TRUE, data |-> [k \in 1..m |-> Vec(k)]] : m \in {n - 1, n, n + 1} \cap Nat}

\* LLMClient.embed_texts, llm.py lines 15-31
embed_texts(texts, reply) ==
    IF texts = << >> THEN << >>
    ELSE IF ~reply.ok THEN << >>
    ELSE reply.data

\* `texts`, routes/rag.py lines 146-148
Texts(docs) == [i \in 1..Len(docs) |-> docs[i].llm_text]

\* d["embedding"] = v
WithEmbedding(d, v) ==
    [id |-> d.id, title |-> d.title, artist |-> d.artist, mood |-> d.mood,
     valence |-> d.valence, energy |-> d.energy, created_at |-> d.created_at,
     llm_text |-> d.llm_text, embedding |-> v]

\* a zip without the length test: C27 must tell it from the code's
EmbeddedZip(to_index, vecs) ==
    [i \in 1..Len(to_index) |->
        IF i <= Len(vecs) THEN WithEmbedding(to_index[i], vecs[i]) ELSE to_index[i]]
\* routes/rag.py lines 154-156
Embedded(to_index, vecs) ==
    IF vecs # << >> /\ Len(vecs) = Len(to_index)
    THEN [i \in 1..Len(to_index) |-> WithEmbedding(to_index[i], vecs[i])]
    ELSE to_index

\* lines 130-179: index the merged entries and answer.  The time of the
\* request is its ordinal.  `client` is whether LLMClient() of line 152
\* could be built.
RouteRespond ==
    /\ rpc = "index"
    /\ rpc' = "done"
    /\ \E docs \in { ToIndex(rMerged, rEmotion, searches) } :
       \E client \in BOOLEAN, reply \in EmbedReplies(Len(docs)) :
       \E vecs \in { IF client THEN embed_texts(Texts(docs), reply) ELSE << >> } :
       \E to_index \in { IF client THEN Embedded(docs, vecs) ELSE docs } :
       \E lost \in Losses(to_index) :
         /\ rToIndex' = to_index
         /\ rEmbed' = IF client THEN "answered" ELSE "raised"
         /\ rVecs' = vecs
         /\ rLost' = lost \cap (1..Len(to_index))
         /\ rIndexed' = Indexed(to_index, lost)
         /\ store' = IndexedStore(store, to_index, lost)
         /\ IF Indexed(to_index, lost) > 0
            THEN indexExists' = TRUE
            ELSE \E created \in BOOLEAN : indexExists' = (indexExists \/ (created /\ to_index # << >>))
         /\ rOut' = [status |-> 200,
                     emotion |-> rEmotion,
                     requested_min |-> rMinTracks,
                     returned |-> Len(rMerged),
                     items |-> Take(rMerged, Cap(rMinTracks)),
                     note |-> Note(Len(rMerged), rMinTracks, Len(rAugmented),
                                   Indexed(to_index, lost))]
    /\ UNCHANGED <<ixVars, ragVars, mergeVars, fnVars, concVars, rEmotion, rMinTracks, rTracks,
                   rRetrieved, rCurated, rAugmented, rMerged, searches, seeds>>

\* the response is sent; the locals of the request end
RouteReturn ==
    /\ rpc = "done"
    /\ rpc' = "idle"
    /\ rEmotion' = << >> /\ rMinTracks' = 0 /\ rTracks' = << >>
    /\ rRetrieved' = 0 /\ rCurated' = 0
    /\ rAugmented' = << >> /\ rMerged' = << >> /\ rOut' = << >>
    /\ rToIndex' = << >> /\ rEmbed' = "none" /\ rVecs' = << >> /\ rLost' = {} /\ rIndexed' = 0
    /\ UNCHANGED <<storeVars, ixVars, ragVars, mergeVars, fnVars, concVars, searches, seeds>>

(***************************************************************************)
(* seed_data.seed_knowledge, one run as one step.                          *)
(***************************************************************************)
\* what /catalog/emotions answers: the labels in the order of the reply,
\* and the parameters of each
ServiceEmotions == <<Happy>>
ServiceParams == (Happy :> EMOTION_PARAMS[happy])
NoParams == [x \in {} |-> 0]
\* `list(Config.EMOTION_PARAMS.keys())`
ConfigEmotions == <<happy, sad, angry, relaxed>>

\* LLMClient.recommend_songs, llm.py lines 162-169: strip, drop blanks,
\* `out[:count]`
recommend_songs(parsed, count) ==
    LET clean == [i \in 1..Len(parsed) |->
                    Sug(Strip(parsed[i].title), Strip(parsed[i].artist))]
        keep(it) == it.title # << >> /\ it.artist # << >>
    IN Take(SelectSeq(clean, keep), count)

\* seed_data.py lines 69-74
SeedPairs(suggestions) ==
    LET clean == [i \in 1..Len(suggestions) |->
                    Sug(Strip(suggestions[i].title), Strip(suggestions[i].artist))]
        keep(it) == it.title # << >> /\ it.artist # << >>
    IN SelectSeq(clean, keep)

BATCH_SIZE == 25    \* `batch_size = 25`

\* seed_data.py lines 77-87: resolve in chunks
RECURSIVE SeedResolve(_, _)
SeedResolve(prs, mode) ==
    IF prs = << >> THEN << >>
    ELSE resolve_batch(ResolverAnswer(mode, Take(prs, BATCH_SIZE)))
         \o SeedResolve(SubSeq(prs, BATCH_SIZE + 1, Len(prs)), mode)

\* seed_data._build_doc for a resolved record
SeedDoc(emo, item, feats, params_map) ==
    LET external_id == IF item.id # NoId THEN item.id ELSE item.external_id
        provider == Lower(IF item.provider # << >> THEN item.provider ELSE spotify)
        params == IF Lower(emo) \in DOMAIN params_map THEN params_map[Lower(emo)]
                  ELSE [valence |-> <<40, 60>>, energy |-> <<40, 60>>]
        v_mid == (params.valence[1] + params.valence[2]) \div 2
        e_mid == (params.energy[1] + params.energy[2]) \div 2
        has == item.external_id # NoId /\ item.external_id \in DOMAIN feats
    IN [id |-> IF external_id # NoId THEN provider \o <<45>> \o external_id
               ELSE provider \o <<45>> \o emo \o <<45>> \o item.title \o <<45>> \o item.artist,
        external_id |-> external_id,
        provider |-> provider,
        source |-> "llm+music",
        title |-> item.title, artist |-> item.artist,
        mood |-> Lower(emo),
        valence |-> IF has THEN feats[item.external_id].valence ELSE v_mid,
        energy |-> IF has THEN feats[item.external_id].energy ELSE e_mid]

\* seed_data.py lines 66-108 for one emotion: the documents handed to
\* index_tracks
SeedDocs(emo, reply, mode, audioOk, params_map) ==
    LET recs == SeedResolve(SeedPairs(recommend_songs(reply, PER_EMOTION)), mode)
        sp_ids == SpotifyIds(recs)
        feats == IF sp_ids # << >> /\ audioOk THEN AudioAnswer(sp_ids) ELSE NoFeats
        docs == [i \in 1..Len(recs) |-> SeedDoc(emo, recs[i], feats, params_map)]
        named(d) == d.title # << >> /\ d.artist # << >>
    IN SelectSeq(docs, named)

\* seed_data.py lines 66-110: the loop over the emotions
RECURSIVE SeedEmotions(_, _, _, _, _, _, _)
SeedEmotions(st, emotions, reply, mode, audioOk, params_map, allLost) ==
    IF emotions = << >> THEN st
    ELSE LET docs == SeedDocs(Head(emotions), reply, mode, audioOk, params_map)
         IN SeedEmotions(IndexedStore(st, docs, IF allLost THEN 1..Len(docs) ELSE {}),
                         Tail(emotions), reply, mode, audioOk, params_map, allLost)

\* the catalog answers of a seed run
SeedModes == {"echo", "canon", "none"}

\* seed_data.py lines 52-111.  ensure_index_exists swallows its failures;
\* LLMClient() raises without a key, before anything is written; a failing
\* /catalog/emotions falls back to the configured emotions.
SeedRun ==
    /\ rpc = "idle" /\ pc = "idle" /\ ixState = "idle" /\ seeds < MaxSeeds
    /\ seeds' = seeds + 1
    /\ \E llmOk \in BOOLEAN, listed \in BOOLEAN, reply \in RouteReplies, mode \in SeedModes,
          audioOk \in BOOLEAN, allLost \in BOOLEAN :
        \E st \in { IF ~llmOk THEN store
                    ELSE SeedEmotions(store,
                                      IF listed THEN ServiceEmotions ELSE ConfigEmotions,
                                      reply, mode, audioOk,
                                      IF listed THEN ServiceParams ELSE NoParams,
                                      allLost) } :
          /\ store' = st
          /\ IF st # store \/ indexExists
             THEN indexExists' = TRUE
             ELSE \E created \in BOOLEAN : indexExists' = created
    /\ UNCHANGED <<ixVars, ragVars, mergeVars, fnVars, concVars, rpc, rEmotion, rMinTracks, rTracks,
                   rRetrieved, rCurated, rAugmented, rMerged, rOut, embVars, searches>>

FullLen == 50       \* documents of the full store
\* a store that already holds FullLen tracks of one mood, "t1", "t2", ... by
\* "w", written there by earlier index_tracks calls
FullStore ==
    [i \in {Num(k) : k \in 1..FullLen} |->
        Doc(i, <<116>> \o i, <<119>>, happy, 80, 80, <<115>>)]

InitRoute ==
    /\ store \in {EmptyStore, FullStore}
    /\ indexExists = (DOMAIN store # {})
    /\ ixState = "idle"
    /\ ixQueue = << >>
    /\ ixIndexed = 0
    /\ ixLast = NoWrite
    /\ ixDocs = << >> /\ ixCalls = << >> /\ ixReturned = 0
    /\ NoCall
    /\ mState = "off" /\ mTracks = << >> /\ mGenerated = << >> /\ mMerged = << >>
    /\ NoFunction
    /\ NoRequest /\ searches = 0 /\ seeds = 0
    /\ NoWriters

NextRoute ==
    \/ \E p \in RouteRequests : RouteSearchCall(p)
    \/ Retrieve
    \/ LLMClientFails
    \/ AugmentRound
    \/ AugmentRoundFails
    \/ Resolve
    \/ ResolveFails
    \/ RoutePipelineRaised
    \/ RouteAugment
    \/ RouteRespond
    \/ RouteReturn
    \/ SeedRun

SpecRoute == InitRoute /\ [][NextRoute]_vars

(***************************************************************************)
(* Two overlapping index_tracks calls (opensearch_client.py 70-77) on the  *)
(* shared collection: the writes of each go in the order of its `docs`,    *)
(* and the writes of the two interleave freely.                            *)
(***************************************************************************)
\* the documents of the two calls: those that carry an id
WriterDocs == {d \in DocPool : d.id # NoId}
Writers == {1, 2}

InitWriters ==
    /\ store = EmptyStore
    /\ indexExists = FALSE
    /\ ixState = "idle"
    /\ ixQueue = << >>
    /\ ixIndexed = 0
    /\ ixLast = NoWrite
    /\ ixDocs = << >> /\ ixCalls = << >> /\ ixReturned = 0
    /\ NoCall
    /\ mState = "off" /\ mTracks = << >> /\ mGenerated = << >> /\ mMerged = << >>
    /\ NoFunction
    /\ NoRequest /\ searches = 0 /\ seeds = 0
    /\ cBatch \in SeqsUpTo(WriterDocs, MaxBatch) \X SeqsUpTo(WriterDocs, MaxBatch)
    /\ cDone = <<0, 0>>
    /\ cLost = {}

\* lines 71-77: the next `client.index` of call w; a failed write is skipped
WriterWrite(w) ==
    /\ cDone # << >>
    /\ cDone[w] < Len(cBatch[w])
    /\ cDone' = [cDone EXCEPT ![w] = @ + 1]
    /\ \E d \in { cBatch[w][cDone[w] + 1] } :
       \E ok \in BOOLEAN :
         IF ok
         THEN /\ store' = OsIndex(store, IndexId(d), d)
              /\ indexExists' = TRUE
              /\ UNCHANGED cLost
         ELSE /\ cLost' = cLost \cup {<<w, cDone[w] + 1>>}
              /\ UNCHANGED <<store, indexExists>>
    /\ UNCHANGED <<ixVars, ragVars, mergeVars, fnVars, routeVars, cBatch>>

NextWriters == \E w \in Writers : WriterWrite(w)

SpecWriters == InitWriters /\ [][NextWriters]_vars

\* the store after the two calls run one after the other, the first call
\* first, with the same writes failing
LostOf(w) == {k \in 1..Len(cBatch[w]) : <<w, k>> \in cLost}
SerialStore ==
    IndexedStore(IndexedStore(EmptyStore, cBatch[1], LostOf(1)), cBatch[2], LostOf(2))

(***************************************************************************)
(* Properties.                                                             *)
(***************************************************************************)
\* a list holds no two entries with the same lower-cased (title, artist)
LowerKey(it) == <<Lower(it.title), Lower(it.artist)>>
NoTwoShareLowerKey(lst) ==
    \A i, j \in 1..Len(lst) : LowerKey(lst[i]) = LowerKey(lst[j]) => i = j

\* the identity of a track: its (title, artist), trimmed, case-insensitive
Identity(it) == <<Lower(Strip(it.title)), Lower(Strip(it.artist))>>
Named(it) == Strip(it.title) # << >> /\ Strip(it.artist) # << >>
Elems(lst) == {lst[i] : i \in 1..Len(lst)}

\* `sub` is `lst` with some entries left out, the others in their order
RECURSIVE IsSubSeq(_, _)
IsSubSeq(sub, lst) ==
    IF sub = << >> THEN TRUE
    ELSE IF lst = << >> THEN FALSE
    ELSE IF Head(sub) = Head(lst) THEN IsSubSeq(Tail(sub), Tail(lst))
    ELSE IsSubSeq(sub, Tail(lst))

Returned == pc = "done" /\ path # "raised"

\* C1: one invocation of search_tracks issues at most max_relax_steps + 1
\* calls of search_tracks_by_emotion, whatever the store answers.
C1_AtMostRelaxPlusOneQueries == queries <= max_relax_steps + 1

C1_Witness ==
    /\ pc = "augment" /\ max_relax_steps = 2 /\ queries = 3
    /\ tracks # << >>

\* C2: the list the merge step builds, in the pipeline and in the route, for
\* any two input lists, holds no two entries with equal lower-cased
\* (title, artist) and no entry whose title or artist is empty (or blank).
C2_MergedIsDeduplicated ==
    mState \in {"pipeline", "route"} =>
        /\ NoTwoShareLowerKey(mMerged)
        /\ \A i \in 1..Len(mMerged) :
             /\ mMerged[i].title # << >> /\ mMerged[i].artist # << >>
             /\ Named(mMerged[i])

C2_Witness ==
    /\ mState = "route"
    /\ Len(mTracks) = 2 /\ Len(mGenerated) = 2 /\ Len(mMerged) = 1
    /\ \E i \in 1..2 : ~Named(mGenerated[i])
    /\ LowerKey(mTracks[1]) = LowerKey(mTracks[2]) /\ mTracks[1] # mTracks[2]

\* C3: on every return path of search_tracks the returned list holds no two
\* entries with the same lower-cased (title, artist).
C3_ReturnedIsDeduplicated == Returned => NoTwoShareLowerKey(result)

\* C4: a key in both the retrieved and the generated list is represented in
\* the output by the retrieved list's (first) entry alone, and the output is
\* retrieved entries, in their order, followed by generated entries, in
\* their order.
C4_RetrievedFirstAndWins ==
    Returned =>
        /\ \A t \in Elems(tracks), g \in Elems(found) :
             Named(t) /\ Identity(t) = Identity(g) =>
                LET first == CHOOSE k \in 1..Len(tracks) :
                                /\ Identity(tracks[k]) = Identity(t)
                                /\ \A h \in 1..(k - 1) : Identity(tracks[h]) # Identity(t)
                IN \E i \in 1..Len(result) :
                     /\ result[i] = tracks[first]
                     /\ \A j \in 1..Len(result) :
                          Identity(result[j]) = Identity(t) => j = i
        /\ \E n \in 0..Len(result) :
             /\ IsSubSeq(SubSeq(result, 1, n), tracks)
             /\ IsSubSeq(SubSeq(result, n + 1, Len(result)), found)

C4_Witness ==
    /\ pc = "done" /\ path = "merged"
    /\ \E t \in Elems(tracks), g \in Elems(found) : Named(t) /\ Identity(t) = Identity(g)
    /\ \E i \in 1..Len(result) : result[i] \in Elems(found)
    /\ Len(tracks) = 2

\* C5: no generated candidate of search_tracks has a lower-cased key among
\* the keys of the retrieved tracks, or one that find_by_title_artist finds
\* in the Document Store.
C5_GeneratedAreNew ==
    pc = "done" /\ path \in {"merged", "found"} =>
        \A g \in Elems(found) :
            /\ \A t \in Elems(tracks) : LowerKey(g) # LowerKey(t)
            /\ find_by_title_artist(store, indexExists, TRUE, g.title, g.artist, 1) = << >>

\* C6: the pairs accumulated for resolution, and the generated candidates
\* returned, never outnumber the count asked of the curator.
C6_PendingWithinDesired ==
    pc # "idle" =>
        /\ Len(pairs) <= Desired(min_tracks)
        /\ Len(found) <= Desired(min_tracks)

Running == pc \in {"retrieve", "augment", "resolve"}

\* the steps an invocation of search_tracks can still take, at most
StepsLeft ==
    CASE pc = "retrieve" -> (max_relax_steps + 1 - attempt) + max_iters + 1
      [] pc = "augment" -> (max_iters - iter_idx) + 1
      [] pc = "resolve" -> 1
      [] OTHER -> 0

\* C7: search_tracks asks the curator at most 3 times, and every invocation
\* ends, also when whole rounds of suggestions are rejected: while it runs
\* it can always take a step (each collaborator call returning), and every
\* step it takes lowers the number of steps left, which is never negative.
C7_AtMostThreeRoundsAndEnds ==
    /\ [](curator_calls <= 3)
    /\ [](StepsLeft >= 0)
    /\ [](Running => ENABLED SearchTracksStep)
    /\ [][Running => StepsLeft' < StepsLeft]_vars

C7_Witness ==
    /\ pc = "done" /\ path = "merged"
    /\ curator_calls = 3 /\ pairs = << >> /\ tracks # << >>

C9_ReadPathNeverRaises == pc = "done" => path # "raised"

\* C10: after a write of a document with an id, the store holds exactly one
\* document with that id, the one just written; when the id was stored
\* before, the number of documents is what it was.
C10_UpsertById ==
    ixLast.ok /\ ixLast.doc.id # NoId =>
        /\ ixLast.doc.id \in DOMAIN store
        /\ store[ixLast.doc.id] = ixLast.doc
        /\ {i \in DOMAIN store : store[i].id = ixLast.doc.id} = {ixLast.doc.id}
        /\ ixLast.existed => Cardinality(DOMAIN store) = ixLast.before

C10_Witness ==
    /\ ixLast.ok /\ ixLast.existed /\ ixLast.doc.id # NoId
    /\ Cardinality(DOMAIN store) = 2

\* the slug of a title or artist: trimmed, lower-cased, spaces as hyphens
SlugOf(s) ==
    LET t == Strip(s)
    IN [i \in 1..Len(t) |->
          IF t[i] = 32 THEN 45
          ELSE IF t[i] >= 65 /\ t[i] <= 90 THEN t[i] + 32 ELSE t[i]]
IsPrefix(a, b) == Len(a) <= Len(b) /\ \A k \in 1..Len(a) : a[k] = b[k]

\* C11: an entry without an id is indexed under "llm-{emotion}-{title
\* slug}-{artist slug}" cut at 256 characters, the same in every run and for
\* every entry with that title and artist, "llm-sad-song-artist" for "Song"
\* by "Artist" and "sad"; an entry with an id keeps it.
C11_DerivedIdIsStable ==
    fn = "to_index" =>
      \A r \in 1..Len(fnOut) : \A i \in 1..Len(fnArgs.merged) :
        LET it == fnArgs.merged[i]
            d == fnOut[r][i]
            e == fnArgs.emotion
            full == <<108, 108, 109, 45>> \o e \o <<45>> \o SlugOf(it.title)
                      \o <<45>> \o SlugOf(it.artist)
        IN /\ it.id # NoId => d.id = it.id
           /\ it.id = NoId =>
                /\ IsPrefix(d.id, full)
                /\ Len(d.id) = Min(Len(full), 256)
                /\ \A r2 \in 1..Len(fnOut) : \A j \in 1..Len(fnArgs.merged) :
                     /\ fnArgs.merged[j].id = NoId
                     /\ fnArgs.merged[j].title = it.title
                     /\ fnArgs.merged[j].artist = it.artist
                     => fnOut[r2][j].id = d.id
                /\ it.title = Song /\ it.artist = Artist /\ e = sad =>
                     d.id = <<108, 108, 109, 45, 115, 97, 100, 45, 115, 111, 110, 103,
                              45, 97, 114, 116, 105, 115, 116>>

C11_Witness ==
    /\ fn = "to_index" /\ Len(fnOut) = 2 /\ Len(fnArgs.merged) = 2
    /\ fnOut[1][1].created_at # fnOut[2][1].created_at
    /\ fnArgs.merged[1].id = NoId /\ fnArgs.merged[1].title = LongTitle
    /\ Len(fnOut[2][1].id) = 256
    /\ fnArgs.merged[2].id = NoId /\ fnArgs.merged[2].title = Song
    /\ fnArgs.merged[2].artist = Artist /\ fnArgs.emotion = sad

\* the arguments satisfy 0 <= lo <= hi <= 1 and step > 0, limits omitted
RelaxPre ==
    /\ fn = "relax_range" /\ fnOut # << >>
    /\ ~fnArgs.given
    /\ 0 <= fnArgs.bounds[1] /\ fnArgs.bounds[1] <= fnArgs.bounds[2]
    /\ fnArgs.bounds[2] <= ONE
    /\ fnArgs.step > 0
Saturated(r) == r = <<0, ONE>>
\* between two applications: not narrower, within [0, 1], [0, 1] stays
RelaxWidens ==
    /\ fnOut[2][1] <= fnOut[1][1] /\ fnOut[1][2] <= fnOut[2][2]
    /\ 0 <= fnOut[2][1] /\ fnOut[2][2] <= ONE
    /\ Saturated(fnOut[1]) => Saturated(fnOut[2])

\* C12 as stated: repeated applications of relax_range never narrow the
\* range, keep it within [0, 1], and reach [0, 1] after finitely many: the
\* range stops changing only at [0, 1].
C12_RelaxReachesUnitRange ==
    RelaxPre =>
        /\ RelaxWidens
        /\ fnOut[2] = fnOut[1] => Saturated(fnOut[2])

\* C12 as amended: the same, but [0, 1] is reached for the steps that
\* rounding cannot absorb, those of at least the distance between
\* neighbouring floats below 1.
C12_RelaxWidensWithinUnitRange ==
    RelaxPre =>
        /\ RelaxWidens
        /\ fnArgs.step >= ONE \div Pow2(FP_BITS) /\ fnOut[2] = fnOut[1]
             => Saturated(fnOut[2])

C12_Witness ==
    /\ RelaxPre
    /\ fnArgs.step = ONE \div Pow2(FP_BITS)
    /\ fnArgs.bounds = <<ONE \div 2, ONE \div 2>>
    /\ fnOut[1] # fnOut[2] /\ Saturated(fnOut[2])

\* C13: relax_range returns (max(min_val, lo - step), min(max_val, hi +
\* step)), with min_val = 0 and max_val = 1 when they are omitted, for every
\* input (also crossed ranges and limits, zero and negative steps).
C13_RelaxRangeFormula ==
    fn = "relax_range" /\ fnOut # << >> =>
        LET mn == IF fnArgs.given THEN fnArgs.min_val ELSE 0
            mx == IF fnArgs.given THEN fnArgs.max_val ELSE ONE
            down == Fl(fnOut[1][1] - fnArgs.step)
            up == Fl(fnOut[1][2] + fnArgs.step)
        IN /\ fnOut[2][1] \in {mn, down} /\ fnOut[2][1] >= mn /\ fnOut[2][1] >= down
           /\ fnOut[2][2] \in {mx, up} /\ fnOut[2][2] <= mx /\ fnOut[2][2] <= up

C13_Witness ==
    /\ fn = "relax_range" /\ fnOut # << >>
    /\ fnArgs.given /\ fnArgs.min_val > 0 /\ fnArgs.max_val < ONE
    /\ fnArgs.step > 0
    /\ fnOut[2] = <<fnArgs.min_val, fnArgs.max_val>>
    /\ fnOut[1][1] - fnArgs.step < fnArgs.min_val
    /\ fnOut[1][2] + fnArgs.step > fnArgs.max_val

\* C14: emotion_to_params returns the configured ranges for a known label,
\* whatever its case, and (0.4, 0.6) for both axes for any other label.
C14_EmotionToParams ==
    fn = "emotion_to_params" /\ fnOut # << >> =>
        LET folded == Lower(fnArgs.label)
            known == {happy, sad, angry, relaxed}
        IN /\ \A k \in known : folded = k => fnOut[1] = EMOTION_PARAMS[k]
           /\ folded = happy =>
                fnOut[1] = [valence |-> <<60, 100>>, energy |-> <<50, 100>>]
           /\ folded \notin known =>
                fnOut[1] = [valence |-> <<40, 60>>, energy |-> <<40, 60>>]

C14_Witness ==
    /\ fn = "emotion_to_params" /\ fnOut # << >>
    /\ fnArgs.label = <<72, 65, 80, 80, 89>>
    /\ fnOut[1].valence = <<60, 100>>

\* C15: on every return path the list search_tracks returns has at most
\* max(2 * min_tracks, 50) entries (the store returning at most `limit`
\* hits, as SearchHits does).
C15_ReturnedWithinCap ==
    Returned => Len(result) <= Max(2 * min_tracks, 50)

\* C17: the curator is asked for exactly min_tracks - r candidates, r being
\* the number of entries of the last retrieval.
C17_AsksForTheShortfall ==
    curator_calls > 0 => curator_count = min_tracks - Len(tracks)

\* C20: a failure to construct the LLM client is not turned into an empty or
\* partial result: the invocation ends by raising.
C20_ConfigFailureSurfaces ==
    pc = "done" /\ "config" \in failed => path = "raised"

\* C16: a /search request that got as far as the merged list answers with
\* status 200, the merged count and the merged entries up to the cap; its
\* note is the one of insufficient results, "(n/min_tracks)" with n the
\* merged count, exactly when n is below min_tracks.  The only failing
\* answer is the one given when the store query itself raised, before
\* anything was merged.
InsufficientNote(note) == note # NoNote /\ note[1] = "Resultados insuficientes ("
C16_InsufficientNoteIffShort ==
    rpc = "done" =>
        IF rOut.status = 200
        THEN /\ InsufficientNote(rOut.note) <=> Len(rMerged) < rMinTracks
             /\ InsufficientNote(rOut.note) =>
                    /\ rOut.note[2] = Num(Len(rMerged))
                    /\ rOut.note[3] = "/"
                    /\ rOut.note[4] = Num(rMinTracks)
             /\ rOut.returned = Len(rMerged)
             /\ rOut.items = Take(rMerged, Cap(rMinTracks))
        ELSE rMerged = << >> /\ rAugmented = << >> /\ rCurated = 0

\* a request answered 200 with some entries, fewer than min_tracks, after
\* the curator was consulted, and carrying the note
C16_Witness ==
    /\ rpc = "done" /\ rOut.status = 200
    /\ rCurated > 0
    /\ Len(rMerged) > 0 /\ Len(rMerged) < rMinTracks
    /\ InsufficientNote(rOut.note)
    /\ rOut.items = rMerged

\* C18: the curator is consulted only when the retrieval, after its last
\* relaxation, returned fewer than min_tracks entries: in search_tracks
\* called alone and within a /search request.
C18_CuratorOnlyWhenShort ==
    /\ curator_calls > 0 => Len(tracks) < min_tracks
    /\ rpc \in {"index", "done"} /\ rCurated > 0 => rRetrieved < rMinTracks

\* C19: the Document Store holds no two documents with the same mood and
\* the same lower-cased (title, artist).
C19_NoDuplicateDocuments ==
    \A i \in DOMAIN store : \A j \in DOMAIN store :
        i # j => ~ /\ store[i].mood = store[j].mood
                   /\ Lower(store[i].title) = Lower(store[j].title)
                   /\ Lower(store[i].artist) = Lower(store[j].artist)

\* C21: when two overlapping index_tracks calls have made all their writes,
\* the store is the one a serial run of the two calls leaves, whatever the
\* interleaving was (the upserts commute), and it holds one document under
\* every id written.
WritersDone == cDone # << >> /\ \A w \in Writers : cDone[w] = Len(cBatch[w])
C22_MergeIsDeterministic ==
    fn \in {"merge", "route_merge"} /\ Len(fnOut) = 2 => fnOut[1] = fnOut[2]

\* C23: in search_tracks the query number i (from 0) is made with the
\* emotion's base ranges widened i times by 0.1 within [0, 1]; a query that
\* returns at least min_tracks hits ends the invocation with these hits, and
\* after it nothing happens but the return: no store query, no curator
\* call, no resolver call.
Widened(r, i) == <<Max(0, r[1] - 10 * i), Min(100, r[2] + 10 * i)>>
QueryRanges ==
    pc = "retrieve" =>
        /\ queries = attempt
        /\ attempt <= max_relax_steps
        /\ valence = Widened(emotion_to_params(emotion).valence, attempt)
        /\ energy = Widened(emotion_to_params(emotion).energy, attempt)
EndedEarly ==
    path = "early" =>
        /\ pc = "done"
        /\ result = tracks /\ Len(tracks) >= min_tracks
        /\ queries = attempt + 1
        /\ curator_calls = 0 /\ pairs = << >> /\ found = << >> /\ failed = {}
EnoughEnds ==
    /\ pc = "retrieve" /\ path' # "raised" /\ Len(tracks') >= min_tracks
         => pc' = "done" /\ path' = "early" /\ result' = tracks'
    /\ path = "early" => pc' = "idle" /\ store' = store
C23_QueriesWidenAndEnoughEnds ==
    [](QueryRanges /\ EndedEarly) /\ [][EnoughEnds]_vars

\* an invocation ended by its second or a later query, made on widened
\* ranges
C23_Witness ==
    /\ path = "early" /\ attempt >= 1
    /\ Len(result) >= min_tracks
    /\ valence = Widened(emotion_to_params(emotion).valence, attempt)
    /\ valence # emotion_to_params(emotion).valence

\* C24: when search_tracks returns what it generated, every resolved
\* record that has the title and artist (in any case) of an accepted
\* suggestion for which the store holds no track is in the returned list,
\* unless the list was cut at the cap.
SameNames(t, p) == Lower(t.title) = Lower(p.title) /\ Lower(t.artist) = Lower(p.artist)
C24_ResolvedSuggestionIsReturned ==
    pc = "done" /\ path \in {"merged", "found"} /\ Len(result) < Cap(min_tracks) =>
        \A i \in 1..Len(resolved) : \A k \in 1..Len(pairs) :
            /\ SameNames(resolved[i], pairs[k])
            /\ find_by_title_artist(store, TRUE, TRUE, pairs[k].title, pairs[k].artist, 1) = << >>
            => \E j \in 1..Len(result) :
                  /\ result[j].title = resolved[i].title
                  /\ result[j].artist = resolved[i].artist

\* C25: the key of every suggestion rejected because the store holds it is
\* in existing_keys from then on.
C25_StoreHitsAreReserved == kb_hits \subseteq existing_keys

\* the stored attributes the indexing step of /search is not to touch
KeptAttributes == {"external_id", "provider", "source", "created_at"}
Kept(before, after) ==
    \A f \in KeptAttributes \cap DOMAIN before :
        f \in DOMAIN after /\ after[f] = before[f]

\* C26: when the indexing step of /search writes a document under an id
\* the store already held, the stored external_id, provider, source and
\* created_at of that document are what they were before the step
C26_ReupsertKeepsAttributes ==
    [][rpc = "index" =>
         \A i \in DOMAIN store : i \in DOMAIN store' /\ Kept(store[i], store'[i])]_vars


\* C27: in the indexing step of /search, when the embedding call fails or
\* answers with a number of vectors other than the number of documents, no
\* document carries an embedding; otherwise every document carries the
\* vector at its own position; in both cases every document is handed to
\* the store, the written count is the number of writes that went through,
\* and what the store holds under the id of a written document is a
\* document of the batch
C27_EmbeddingsAllOrNothing ==
    rpc = "done" /\ rOut.status = 200 =>
        LET n == Len(rToIndex)
            has(i) == "embedding" \in DOMAIN rToIndex[i]
            usable == rEmbed = "answered" /\ Len(rVecs) = n
            written == (1..n) \ rLost
        IN /\ usable => \A i \in 1..n : has(i) /\ rToIndex[i].embedding = rVecs[i]
           /\ ~usable => \A i \in 1..n : ~has(i)
           /\ n = Len(rMerged)
           /\ rIndexed = Cardinality(written)
           /\ \A i \in written :
                 /\ rToIndex[i].id \in DOMAIN store
                 /\ \E j \in written : j >= i /\ store[rToIndex[i].id] = rToIndex[j]

\* an answer one vector short for a batch of several documents, all written
C27_Witness ==
    /\ rpc = "done" /\ rOut.status = 200
    /\ Len(rToIndex) >= 2
    /\ rEmbed = "answered" /\ Len(rVecs) = Len(rToIndex) - 1
    /\ rLost = {} /\ rIndexed = Len(rToIndex)


\* the k-th client.index call of the run, and whether it went through
WriteCall(k) == ixCalls[k + 1]
Written == {k \in 1..Len(ixDocs) : WriteCall(k).ok}

\* C28: when index_tracks returns, the value is the number of documents
\* whose write went through; the store was asked to write every document
\* of the batch, in order, whatever became of the writes before it (no
\* abort), and holds each written document unless a later written document
\* of the batch has the same id (no undo); the last store call of a
\* non-empty batch is the refresh, after the last write; an empty batch
\* returns 0 and makes no store call
C28_IndexTracksCountsWrites ==
    ixState = "done" =>
        LET n == Len(ixDocs)
        IN IF n = 0
           THEN ixCalls = << >> /\ ixReturned = 0
           ELSE /\ Len(ixCalls) = n + 2
                /\ ixCalls[1].op = "ensure"
                /\ \A k \in 1..n : WriteCall(k).op = "index"
                /\ ixCalls[n + 2].op = "refresh"
                /\ ixReturned = Cardinality(Written)
                /\ \A k \in Written :
                      \E j \in Written :
                        /\ j >= k /\ IndexId(ixDocs[j]) = IndexId(ixDocs[k])
                        /\ \E i \in DOMAIN store :
                              /\ store[i] = ixDocs[j]
                              /\ IndexId(ixDocs[j]) # NoId => i = IndexId(ixDocs[j])

\* a batch of two whose first write failed and whose second went through
C28_Witness ==
    /\ ixState = "done" /\ Len(ixDocs) = 2
    /\ ~WriteCall(1).ok /\ WriteCall(2).ok
    /\ ixReturned = 1

\* the empty batch has returned
C28_WitnessEmpty == ixState = "done" /\ ixDocs = << >> /\ ixReturned = 0


\* C29: in every successful /search response, `returned` is the number of
\* entries of `items`
C29_ReturnedCountsItems ==
    rpc = "done" /\ rOut.status = 200 => rOut.returned = Len(rOut.items)


====
